---- MODULE Spec2Model ----
(***************************************************************************)
(* A model of the creed promise engine (src/src/Promise.js).               *)
(*                                                                         *)
(* The heap is a sequence of handler objects; a Promise facade is          *)
(* identified with the handler it owns (Promise.js:13-16).  The operators  *)
(* thread a record s = [heap, queue, rejections, reports, calls, escaped,  *)
(* mode] through the calls a handler makes, in the order the code makes    *)
(* them.  The modules ./handlers, ./Scheduler and ./registerRejection are  *)
(* imported by Promise.js but are not part of the sources at hand: their   *)
(* operators follow the design document and are marked as such.            *)
(***************************************************************************)
EXTENDS Integers, Sequences, FiniteSets, TLC

\* ------------------------------------------------------------------ bounds
\* calls of then / catch in one behaviour
MaxThens == 2
\* later calls of the resolve / reject functions handed to executors
MaxSettles == 2
\* length of a then chain built step by step
MaxChain == 3
\* length of the array handed to all / race / merge
MaxInputs == 2
\* calls of all / race / merge in one behaviour
MaxCombinators == 1
\* promises made by reject, resolve and promise in one behaviour
MaxSources == 2
\* the same, where only then and catch are called on them
MaxThenSources == 1
\* calls of resolve on a promise in one behaviour
MaxResolves == 2

\* ------------------------------------------------------------------ values
\* A JavaScript value.  k: "plain" (a non-thenable primitive n), "promise"
\* (the Promise owning handler n), "array" (arr), "ret" (what the callable fn
\* returned for the arguments arr), "exn" (what fn threw for arr),
\* "TypeError", "hole" (an unset array slot / undefined).
Value(k, n, fn, arr) == [k |-> k, n |-> n, fn |-> fn, arr |-> arr]
Hole == Value("hole", 0, "", <<>>)
Plain(n) == Value("plain", n, "", <<>>)
PromiseRef(id) == Value("promise", id, "", <<>>)
Array(a) == Value("array", 0, "", a)
\* the results array of the All n, by reference: JavaScript arrays are objects
ArrayRef(n) == Value("arrayref", n, "", <<>>)
TypeError == Value("TypeError", 0, "", <<>>)
\* null, a function, and a non-null object that has no iterator
Null == Value("null", 0, "", <<>>)
Function == Value("function", 0, "", <<>>)
Object == Value("object", 0, "", <<>>)
\* { length: 0 }: an object with a length and no iterator
ArrayLike == Value("object", 0, "length", <<>>)
\* a reference to the handler object id, as a reporter is handed one
HandlerRef(id) == Value("handler", id, "", <<>>)

\* Callables a caller may pass; "undef" stands for a non-function argument.
ThenFs == {"undef", "fRet", "fThrow"}
ThenRs == {"undef", "rRet", "rThrow"}
MergeFs == {"mRet", "mThrow"}
IsFunction(f) == f # "undef"
\* the callable f as a value: a function, or undefined
Fn(f) == IF IsFunction(f) THEN Value("function", 0, f, <<>>) ELSE Hole
Throws(f) == f \in {"fThrow", "rThrow", "mThrow"}
\* f(args): completes normally with a value or abruptly with an exception
Call(f, args) ==
    IF ~IsFunction(f) THEN [ok |-> FALSE, v |-> TypeError]
    ELSE IF Throws(f) THEN [ok |-> FALSE, v |-> Value("exn", 0, f, args)]
    ELSE [ok |-> TRUE, v |-> Value("ret", 0, f, args)]

\* ------------------------------------------------------------------ state
VARIABLES
    heap,        \* Seq of handler objects, index = identity
    taskQueue,   \* the Scheduler's FIFO queue
    rejections,  \* Rejected handlers registered and not yet checked
    reports,     \* notifications handed to the reporter, in order
    calls,       \* invocations of user callbacks, in order
    escaped,     \* an exception left a handler towards caller / scheduler
    mode,        \* "sync": caller code runs; "drain": the scheduler runs
    ops,         \* API calls made so far
    used,        \* API calls made so far, by kind
    settled,     \* ids of promises in the order they settled in time
    returned,    \* what the calls of then, resolve, all and race returned
    env,         \* the host environment the module was loaded in
    emitted      \* the calls of the emitter, with what it handed the host

vars == <<heap, taskQueue, rejections, reports, calls, escaped, mode, ops,
          used, settled, returned, env, emitted>>

\* ------------------------------------------------------------- handlers
DeferredClasses == {"Deferred", "Resolver", "All", "Merge", "Race"}

Handler(cls, state) ==
    [cls |-> cls, state |-> state, value |-> Hole, handled |-> FALSE,
     reported |-> FALSE, handler |-> 0, consumers |-> <<>>,
     pending |-> 0, results |-> <<>>, f |-> "undef",
     \* bookkeeping for the properties, never read by the operators below:
     \* origin is the API call that made the Promise owning this handler
     origin |-> "", src |-> 0, tf |-> "undef", tr |-> "undef",
     array |-> <<>>, atCall |-> <<>>, script |-> <<>>,
     checked |-> FALSE, caught |-> FALSE]

\* continuations (the objects handed to when)
Action(type, f, r, next, index) ==
    [type |-> type, f |-> f, r |-> r, next |-> next, index |-> index]
Then(f, r, next) == Action("Then", f, r, next, 0)
SettleAt(all, index) == Action("SettleAt", "undef", "undef", all, index)
RaceAction(race) == Action("Race", "undef", "undef", race, 0)
silenceRejection == Action("silence", "undef", "undef", 0, 0)

\* scheduler tasks
Continuation(action, h) == [t |-> "cont", action |-> action, h |-> h]
RunConsumers(d) == [t |-> "run", action |-> silenceRejection, h |-> d]

New(s, rec) == [s EXCEPT !.heap = Append(@, rec)]
Last(s) == Len(s.heap)
enqueue(s, task) == [s EXCEPT !.queue = Append(@, task)]

RECURSIVE join(_, _)
join(hp, id) ==
    IF hp[id].cls = "Async" THEN join(hp, hp[id].handler)
    ELSE IF hp[id].cls \in DeferredClasses /\ hp[id].state = "RESOLVED"
         THEN join(hp, hp[id].handler)
    ELSE id

\* h.state(): PENDING, FULFILLED or REJECTED of the handler h stands for
state(hp, id) ==
    LET j == join(hp, id) IN
    IF hp[j].cls \in DeferredClasses \/ hp[j].cls = "Never" THEN "PENDING"
    ELSE hp[j].state

isPending(s, id) == state(s.heap, id) = "PENDING"
isResolved(s, id) == s.heap[id].state = "RESOLVED"

Fulfilled(x) == [Handler("Fulfilled", "FULFILLED") EXCEPT !.value = x]

\* new Rejected(x): registers itself with the rejection tracker
newRejected(s, x) ==
    LET s1 == New(s, [Handler("Rejected", "REJECTED") EXCEPT !.value = x])
    IN [s1 EXCEPT !.rejections = Append(@, Last(s1))]

\* Deferred.become(handler)
become(s, id, h) ==
    IF isResolved(s, id) THEN s
    ELSE LET s1 == [s EXCEPT !.heap[id].state = "RESOLVED",
                             !.heap[id].handler = h]
         IN IF s.heap[id].consumers # <<>>
            THEN enqueue(s1, RunConsumers(id)) ELSE s1

\* Deferred.fulfill(x) of a plain Deferred (Merge overrides it)
Deferred_fulfill(s, id, x) ==
    IF isResolved(s, id) THEN s
    ELSE LET s1 == New(s, Fulfilled(x)) IN become(s1, id, Last(s1))

\* Deferred.reject(e)
Deferred_reject(s, id, e) ==
    IF isResolved(s, id) THEN s
    ELSE LET s1 == newRejected(s, e) IN become(s1, id, Last(s1))

\* handlerFor(x) for x a promise: handlerForPromise
handlerForPromise(s, x) == join(s.heap, x.n)

\* Deferred.resolve(x): become(handlerFor(x))
Deferred_resolve(s, id, x) ==
    IF isResolved(s, id) THEN s
    ELSE IF x.k = "promise" THEN become(s, id, handlerForPromise(s, x))
    ELSE Deferred_fulfill(s, id, x)

\* the rejection tracker: a continuation observed the rejection of id
markHandled(s, id) ==
    IF s.heap[id].handled THEN s
    ELSE LET s1 == [s EXCEPT !.heap[id].handled = TRUE] IN
         IF s.heap[id].reported
         THEN [s1 EXCEPT !.reports = Append(@,
                  [kind |-> "rejectionHandled", reason |-> s.heap[id].value,
                   h |-> id])]
         ELSE s1

\* ------------------------------------------------- Promise.js: then, Then
logCall(s, f, x, next) ==
    [s EXCEPT !.calls = Append(@, [fn |-> f, arg |-> x, next |-> next,
                                   mode |-> s.mode])]

\* tryCatchNext without its catch clause: the exception leaves the handler
tryCatchNext_NoCatch(s, f, x, next) ==
    LET r == Call(f, <<x>>)
        s1 == logCall(s, f, x, next)
    IN IF r.ok THEN Deferred_resolve(s1, next, r.v)
       ELSE [s1 EXCEPT !.escaped = TRUE]

tryCatchNext(s, f, x, next) ==
    LET r == Call(f, <<x>>)
        s1 == logCall(s, f, x, next)
    IN IF r.ok THEN Deferred_resolve(s1, next, r.v) ELSE Deferred_reject(s1, next, r.v)

\* runAction reporting the rejection consumed when it only forwards it
runAction_Consumed(s, f, handler, next) ==
    IF ~IsFunction(f)
    THEN [s |-> become(s, next, handler), ret |-> TRUE]
    ELSE [s |-> tryCatchNext(s, f, s.heap[handler].value, next), ret |-> TRUE]

\* runAction resolving next with the value of handler instead of becoming it
runAction_Resolve(s, f, handler, next) ==
    IF ~IsFunction(f)
    THEN [s |-> Deferred_resolve(s, next, s.heap[handler].value), ret |-> FALSE]
    ELSE [s |-> tryCatchNext(s, f, s.heap[handler].value, next), ret |-> TRUE]

runAction(s, f, handler, next) ==
    IF ~IsFunction(f)
    THEN [s |-> become(s, next, handler), ret |-> FALSE]
    ELSE [s |-> tryCatchNext(s, f, s.heap[handler].value, next), ret |-> TRUE]

Then_fulfilled(s, a, handler) == runAction(s, a.f, handler, a.next)
\* Then.rejected dropping the result of runAction
Then_rejected_NoResult(s, a, handler) ==
    [s |-> runAction(s, a.r, handler, a.next).s, ret |-> FALSE]

Then_rejected(s, a, handler) == runAction(s, a.r, handler, a.next)

\* ------------------------------------------------- Promise.js: All, Merge
\* Merge.fulfill(results); this.f is still unset while the All constructor
\* runs, and calling apply on undefined throws a TypeError
Merge_fulfill(s, id, results) ==
    LET f == s.heap[id].f
        r == Call(f, results)
        s1 == IF IsFunction(f) THEN logCall(s, f, Array(results), id) ELSE s
    IN IF r.ok THEN Deferred_resolve(s1, id, r.v) ELSE Deferred_reject(s1, id, r.v)

\* this.fulfill(results), dispatched on the class of this
fulfill(s, id, results) ==
    IF s.heap[id].cls = "Merge" THEN Merge_fulfill(s, id, results)
    ELSE Deferred_fulfill(s, id, ArrayRef(id))

\* check without the test of the count of pending inputs
check_NoCount(s, id) ==
    IF isPending(s, id) THEN fulfill(s, id, s.heap[id].results) ELSE s

check(s, id) ==
    IF isPending(s, id) /\ s.heap[id].pending = 0
    THEN fulfill(s, id, s.heap[id].results) ELSE s

\* fulfillAt storing x in the first free slot instead of slot i
fulfillAt_Push(s, id, i, x) ==
    LET free == {k \in 1..Len(s.heap[id].results) :
                    s.heap[id].results[k] = Hole}
        slot == IF free = {} THEN i
                ELSE CHOOSE k \in free : \A l \in free : k <= l
    IN check([s EXCEPT !.heap[id].results[slot] = x,
                       !.heap[id].pending = @ - 1], id)

\* indices are 1-based here: slot i is results[i-1] of the code
fulfillAt(s, id, i, x) ==
    check([s EXCEPT !.heap[id].results[i] = x,
                    !.heap[id].pending = @ - 1], id)

rejectAt(s, id, handler) ==
    become([s EXCEPT !.heap[id].pending = 0], id, handler)

SettleAt_fulfilled(s, a, handler) ==
    [s |-> fulfillAt(s, a.next, a.index, s.heap[handler].value), ret |-> TRUE]
\* SettleAt.rejected storing the reason like a result
SettleAt_rejected_Fulfill(s, a, handler) ==
    [s |-> fulfillAt(s, a.next, a.index, s.heap[handler].value), ret |-> TRUE]

SettleAt_rejected(s, a, handler) ==
    [s |-> rejectAt(s, a.next, handler), ret |-> TRUE]

\* ------------------------------------------------------ Promise.js: Race
Race_fulfilled(s, a, handler) == [s |-> become(s, a.next, handler), ret |-> TRUE]
\* Race.rejected observing the rejection without taking it
Race_rejected_Ignore(s, a, handler) == [s |-> s, ret |-> TRUE]

Race_rejected(s, a, handler) == [s |-> become(s, a.next, handler), ret |-> TRUE]

\* ------------------------------------ continuation dispatch, when, tasks
action_fulfilled(s, a, handler) ==
    CASE a.type = "Then" -> Then_fulfilled(s, a, handler)
      [] a.type = "SettleAt" -> SettleAt_fulfilled(s, a, handler)
      [] a.type = "Race" -> Race_fulfilled(s, a, handler)
      [] OTHER -> [s |-> s, ret |-> TRUE]

action_rejected(s, a, handler) ==
    CASE a.type = "Then" -> Then_rejected(s, a, handler)
      [] a.type = "SettleAt" -> SettleAt_rejected(s, a, handler)
      [] a.type = "Race" -> Race_rejected(s, a, handler)
      [] OTHER -> [s |-> s, ret |-> TRUE]

\* h.when(action) on the object h itself
when(s, id, a) ==
    LET h == s.heap[id] IN
    CASE h.cls = "Fulfilled" -> action_fulfilled(s, a, id).s
      [] h.cls = "Rejected" ->
            LET r == action_rejected(s, a, id)
            IN IF r.ret THEN markHandled(r.s, id) ELSE r.s
      [] h.cls = "Async" -> enqueue(s, Continuation(a, h.handler))
      [] h.cls = "Never" -> s
      [] OTHER ->
            IF isResolved(s, id) THEN enqueue(s, Continuation(a, h.handler))
            ELSE [s EXCEPT !.heap[id].consumers = Append(@, a)]

\* a Continuation task: notify action of what handler has come to
runContinuation(s, a, id) ==
    LET j == join(s.heap, id) IN
    CASE s.heap[j].cls = "Fulfilled" -> action_fulfilled(s, a, j).s
      [] s.heap[j].cls = "Rejected" ->
            LET r == action_rejected(s, a, j)
            IN IF r.ret THEN markHandled(r.s, j) ELSE r.s
      [] OTHER -> when(s, j, a)

\* a resolved Deferred hands its queued consumers to its target, in order
RECURSIVE runQueue(_, _, _, _)
runQueue(s, q, j, i) ==
    IF i > Len(q) THEN s ELSE runQueue(when(s, j, q[i]), q, j, i + 1)

runConsumers(s, id) ==
    LET q == s.heap[id].consumers
        j == join(s.heap, id)
    IN runQueue([s EXCEPT !.heap[id].consumers = <<>>], q, j, 1)

\* ------------------------------------------------------- Promise.js: API
\* then without its short cut for settled sources
then_NoShortcut(s, f, r, h) ==
    LET st == state(s.heap, h)
        s1 == New(s, [Handler("Deferred", "PENDING") EXCEPT
                         !.origin = "then", !.src = h, !.tf = f, !.tr = r,
                         !.atCall = <<st>>])
        handler == Last(s1)
    IN [s |-> when(s1, h, Then(f, r, handler)), p |-> handler]

\* then(f, r, h)
then(s, f, r, h) ==
    LET st == state(s.heap, h) IN
    IF (st = "FULFILLED" /\ ~IsFunction(f)) \/ (st = "REJECTED" /\ ~IsFunction(r))
    THEN [s |-> s, p |-> h]
    ELSE LET s1 == New(s, [Handler("Deferred", "PENDING") EXCEPT
                              !.origin = "then", !.src = h, !.tf = f, !.tr = r,
                              !.atCall = <<st>>])
             handler == Last(s1)
         IN [s |-> when(s1, h, Then(f, r, handler)), p |-> handler]

isPromise(x) == x.k = "promise"
maybeThenable(x) == x.k \in {"promise", "array"}

\* handlerFor(x): the joined handler of a promise, a new Fulfilled otherwise
handlerFor(s, x) ==
    IF isPromise(x) THEN [s |-> s, h |-> handlerForPromise(s, x)]
    ELSE LET s1 == New(s, Fulfilled(x)) IN [s |-> s1, h |-> Last(s1)]

Async(h) == [Handler("Async", "") EXCEPT !.handler = h]

\* resolve wrapping a promise like any other value
resolve_Wrap(s, x) ==
    LET r == handlerFor(s, x)
        s1 == New(r.s, [Async(r.h) EXCEPT !.origin = "resolve"])
    IN [s |-> s1, p |-> Last(s1)]

\* resolve without the Async decorator
resolve_NoAsync(s, x) ==
    IF isPromise(x) THEN [s |-> s, p |-> x.n]
    ELSE LET s1 == New(s, [Fulfilled(x) EXCEPT !.origin = "resolve"])
         IN [s |-> s1, p |-> Last(s1)]

\* resolve(x)
resolve(s, x) ==
    IF isPromise(x) THEN [s |-> s, p |-> x.n]
    ELSE LET r == handlerFor(s, x)
             s1 == New(r.s, [Async(r.h) EXCEPT !.origin = "resolve"])
         IN [s |-> s1, p |-> Last(s1)]

\* reject(x)
reject(s, x) ==
    LET s1 == newRejected(s, x)
        s2 == New(s1, [Async(Last(s1)) EXCEPT !.origin = "reject"])
    IN [s |-> s2, p |-> Last(s2)]

\* init without its catch clause: what the executor throws leaves promise()
RECURSIVE init_NoCatch(_, _, _, _)
init_NoCatch(s, id, script, i) ==
    IF i > Len(script) THEN s
    ELSE CASE script[i].c = "resolve" ->
                 init_NoCatch(Deferred_resolve(s, id, script[i].v), id,
                              script, i + 1)
           [] script[i].c = "reject" ->
                 init_NoCatch(Deferred_reject(s, id, script[i].v), id,
                              script, i + 1)
           [] OTHER -> [s EXCEPT !.escaped = TRUE]

\* init(f, resolve, reject): the executor f is the sequence of calls it
\* makes before it returns or throws
RECURSIVE init(_, _, _, _)
init(s, id, script, i) ==
    IF i > Len(script) THEN s
    ELSE CASE script[i].c = "resolve" ->
                 init(Deferred_resolve(s, id, script[i].v), id, script, i + 1)
           [] script[i].c = "reject" ->
                 init(Deferred_reject(s, id, script[i].v), id, script, i + 1)
           [] OTHER -> Deferred_reject(s, id, script[i].v)

\* promise(f): new Resolver(f)
promise(s, script) ==
    LET s1 == New(s, [Handler("Resolver", "PENDING") EXCEPT
                         !.origin = "promise", !.script = script])
        id == Last(s1)
    IN [s |-> init(s1, id, script, 1), p |-> id]

\* handleAt testing SETTLED where the code tests FULFILLED
handleAt_Settled(s, id, i, x) ==
    LET h == handlerForPromise(s, x)
        st == state(s.heap, h)
    IN IF st # "PENDING" THEN fulfillAt(s, id, i, s.heap[h].value)
       ELSE when(s, h, SettleAt(id, i))

\* All.handleAt(results, i, x)
handleAt(s, id, i, x) ==
    LET h == handlerForPromise(s, x)
        st == state(s.heap, h)
    IN IF st = "FULFILLED" THEN fulfillAt(s, id, i, s.heap[h].value)
       ELSE IF st = "REJECTED" THEN rejectAt(s, id, h)
       ELSE when(s, h, SettleAt(id, i))

RECURSIVE resolveAllLoop(_, _, _, _)
resolveAllLoop(s, id, array, i) ==
    IF i > Len(array) THEN s
    ELSE LET x == array[i]
             s1 == IF maybeThenable(x) THEN handleAt(s, id, i, x)
                   ELSE fulfillAt(s, id, i, x)
         IN IF s1.heap[id].pending = 0 THEN s1
            ELSE resolveAllLoop(s1, id, array, i + 1)

\* resolveAll without the check that follows its loop
resolveAll_NoCheck(s, id, array) ==
    LET s1 == [s EXCEPT !.heap[id].results = [i \in 1..Len(array) |-> Hole]]
    IN resolveAllLoop(s1, id, array, 1)

\* All.resolveAll(array)
resolveAll(s, id, array) ==
    LET s1 == [s EXCEPT !.heap[id].results = [i \in 1..Len(array) |-> Hole]]
    IN check(resolveAllLoop(s1, id, array, 1), id)

\* what the claims need to know about the inputs at the time of the call
AtCall(hp, array) ==
    [i \in 1..Len(array) |->
        IF isPromise(array[i]) THEN state(hp, array[i].n) ELSE "PLAIN"]

\* new All(array)
newAll(s, cls, array) ==
    LET s1 == New(s, [Handler(cls, "PENDING") EXCEPT
                         !.pending = Len(array), !.origin = "comb",
                         !.array = array, !.atCall = AtCall(s.heap, array)])
    IN resolveAll(s1, Last(s1), array)

\* typeof x === 'object', which null is too
typeofObject(x) == x.k \in {"array", "arrayref", "object", "promise", "null"}
\* x has an iterator: for (let _ of x) does not throw
iterable(x) == x.k \in {"array", "arrayref"}
\* x.length === 0
lengthIsZero(x) == (x.k = "array" /\ Len(x.arr) = 0) \/ x = ArrayLike
\* an exception leaves the call: nothing is returned, and the object under
\* construction is unreachable
throw(s) == [s |-> [s EXCEPT !.escaped = TRUE], p |-> 0]

\* all(promises); the for-of loop of resolveAll throws a TypeError out of
\* the constructor when promises has no iterator
all(s, promises) ==
    IF ~typeofObject(promises) \/ promises = Null THEN reject(s, TypeError)
    ELSE IF ~iterable(promises) THEN throw(s)
    ELSE LET s1 == newAll(s, "All", promises.arr)
         IN [s |-> s1, p |-> Len(s.heap) + 1]

RECURSIVE visitRemaining(_, _, _, _)
visitRemaining(s, promises, start, handler) ==
    IF start > Len(promises) THEN s
    ELSE LET r == handlerFor(s, promises[start])
             s1 == IF r.h # handler /\ state(r.s.heap, r.h) # "FULFILLED"
                   THEN when(r.s, r.h, silenceRejection) ELSE r.s
         IN visitRemaining(s1, promises, start + 1, handler)

RECURSIVE resolveRace(_, _, _, _)
resolveRace(s, id, array, i) ==
    IF i > Len(array) THEN s
    ELSE LET x == array[i] IN
         IF maybeThenable(x)
         THEN LET h == handlerForPromise(s, x) IN
              IF state(s.heap, h) # "PENDING"
              THEN become(visitRemaining(s, array, i + 1, h), id, h)
              ELSE resolveRace(when(s, h, RaceAction(id)), id, array, i + 1)
         ELSE Deferred_fulfill(visitRemaining(s, array, i + 1, 0), id, x)

\* the never() singleton is the first object of the heap
neverPromise == 1

\* race without its test for an empty input
race_NoEmpty(s, promises) ==
    IF ~typeofObject(promises) \/ promises = Null THEN reject(s, TypeError)
    ELSE IF ~iterable(promises) THEN throw(s)
    ELSE LET s1 == New(s, [Handler("Race", "PENDING") EXCEPT
                              !.origin = "comb", !.array = promises.arr,
                              !.atCall = AtCall(s.heap, promises.arr)])
         IN [s |-> resolveRace(s1, Last(s1), promises.arr, 1),
             p |-> Last(s1)]

\* race(promises)
race(s, promises) ==
    IF ~typeofObject(promises) \/ promises = Null THEN reject(s, TypeError)
    ELSE IF lengthIsZero(promises) THEN [s |-> s, p |-> neverPromise]
    ELSE IF ~iterable(promises) THEN throw(s)
    ELSE LET s1 == New(s, [Handler("Race", "PENDING") EXCEPT
                              !.origin = "comb", !.array = promises.arr,
                              !.atCall = AtCall(s.heap, promises.arr)])
         IN [s |-> resolveRace(s1, Last(s1), promises.arr, 1),
             p |-> Last(s1)]

\* merge(f, ...args): new Merge(f, c, args); the All constructor runs first
merge(s, f, args) ==
    LET id == Len(s.heap) + 1
        s1 == newAll(s, "Merge", args)
    IN [s |-> [s1 EXCEPT !.heap[id].f = f, !.heap[id].tf = f], p |-> id]

\* ----------------------------------------------------------- emitError.js
\* The host, as emitError.js examines it: isNode (./env); emit: typeof
\* process.emit === 'function'; self: typeof self !== 'undefined'; ce: typeof
\* CustomEvent === 'function'; ceWorks: new CustomEvent(type) yields a
\* CustomEvent without throwing; answer: what the transport returns
\* (process.emit: a listener exists; dispatchEvent: no listener called
\* preventDefault).
Host(isNode, emit, self, ce, ceWorks, answer) ==
    [isNode |-> isNode, emit |-> emit, self |-> self, ce |-> ce,
     ceWorks |-> ceWorks, answer |-> answer]
Node == Host(TRUE, TRUE, FALSE, FALSE, FALSE, FALSE)
Envs ==
    {Node,
     [Node EXCEPT !.answer = TRUE],
     \* a Node-like host that exposes the browser globals too
     Host(TRUE, TRUE, TRUE, TRUE, TRUE, FALSE),
     \* browsers, with and without a listener that prevents the default
     Host(FALSE, FALSE, TRUE, TRUE, TRUE, TRUE),
     Host(FALSE, FALSE, TRUE, TRUE, TRUE, FALSE),
     \* a browser whose CustomEvent cannot be constructed
     Host(FALSE, FALSE, TRUE, TRUE, FALSE, FALSE),
     \* a worker without CustomEvent, and a host with nothing at all
     Host(FALSE, FALSE, TRUE, FALSE, FALSE, FALSE),
     Host(FALSE, FALSE, FALSE, FALSE, FALSE, FALSE)}

UNHANDLED_REJECTION == "unhandledRejection"
REJECTION_HANDLED == "rejectionHandled"

\* the function the default export returns for the host e
emitter(e) ==
    IF e.isNode /\ e.emit THEN "process.emit"
    ELSE IF e.self /\ e.ce
         THEN (IF ~e.ceWorks THEN "noop" ELSE "dispatchEvent")
    ELSE "noop"

\* one argument of process.emit (name "") or one field of an event's detail
Item(name, x) == [name |-> name, x |-> x]
Event(transport, type, args) ==
    [transport |-> transport, type |-> type, args |-> args]

\* the emitter handing process.emit the handler only, whatever the type
emitError_HandlerOnly(e, hp, type, error) ==
    CASE emitter(e) = "process.emit" ->
            [sent |-> <<Event("process.emit", type,
                          <<Item("", HandlerRef(error))>>)>>,
             ret |-> e.answer]
      [] emitter(e) = "dispatchEvent" ->
            [sent |-> <<Event("dispatchEvent", type,
                          <<Item("reason", hp[error].value),
                            Item("promise", HandlerRef(error))>>)>>,
             ret |-> ~e.answer]
      [] OTHER -> [sent |-> <<>>, ret |-> FALSE]

\* the emitter applied to (type, error), error the rejected handler: sent is
\* what it hands the host, ret what it returns (noop returns undefined)
emitError(e, hp, type, error) ==
    CASE emitter(e) = "process.emit" ->
            [sent |-> <<Event("process.emit", type,
                          IF type = UNHANDLED_REJECTION
                          THEN <<Item("", hp[error].value),
                                 Item("", HandlerRef(error))>>
                          ELSE <<Item("", HandlerRef(error))>>)>>,
             ret |-> e.answer]
      [] emitter(e) = "dispatchEvent" ->
            [sent |-> <<Event("dispatchEvent", type,
                          <<Item("reason", hp[error].value),
                            Item("promise", HandlerRef(error))>>)>>,
             ret |-> ~e.answer]
      [] OTHER -> [sent |-> <<>>, ret |-> FALSE]

\* the tracker hands the notification n to the emitter
Emit(e, hp, n) ==
    [type |-> n.kind, error |-> n.h, reason |-> n.reason,
     sent |-> emitError(e, hp, n.kind, n.h).sent,
     ret |-> emitError(e, hp, n.kind, n.h).ret]

\* ---------------------------------------------------------------- actions
S == [heap |-> heap, queue |-> taskQueue, rejections |-> rejections,
      reports |-> reports, calls |-> calls, escaped |-> escaped,
      mode |-> mode]

\* promises that were pending in hp and are settled in hp2, by identity
RECURSIVE NewlySettled(_, _, _)
NewlySettled(hp, hp2, i) ==
    IF i > Len(hp) THEN <<>>
    ELSE (IF hp[i].cls \in DeferredClasses /\ state(hp, i) = "PENDING"
             /\ state(hp2, i) # "PENDING" THEN <<i>> ELSE <<>>)
         \o NewlySettled(hp, hp2, i + 1)

\* the state s a call or a task leaves behind; every notification it added
\* has gone through the emitter
Effects(s) ==
    /\ heap' = s.heap
    /\ taskQueue' = s.queue
    /\ rejections' = s.rejections
    /\ reports' = s.reports
    /\ calls' = s.calls
    /\ escaped' = s.escaped
    /\ settled' = settled \o NewlySettled(heap, s.heap, 1)
    /\ emitted' = emitted \o
          [i \in 1..(Len(s.reports) - Len(reports)) |->
              Emit(env, s.heap, s.reports[Len(reports) + i])]
    /\ env' = env

Commit(s) == Effects(s) /\ returned' = returned

\* a call of api with the arguments args that left s behind and returned the
\* promise p (0: it threw instead)
Return(api, args, r) ==
    /\ Effects(r.s)
    /\ returned' = Append(returned, [api |-> api, args |-> args, p |-> r.p])

\* the handlers a Promise facade owns
Promises(hp) == {i \in 1..Len(hp) : hp[i].origin # ""}
\* all of them but never()
Settleable(hp) == {i \in Promises(hp) : hp[i].origin # "never"}

\* Plain values are opaque to the code (it only tests whether a value is a
\* promise), so every call passes values no earlier call has passed: the
\* i-th value of the call number ops + 1.
Fresh(i) == Plain(10 * (ops + 1) + i)

\* the arrays a caller may pass: each slot a fresh plain value or a promise
Elems(hp) == {Hole} \cup {PromiseRef(i) : i \in Settleable(hp)}
FillFresh(a) == [i \in 1..Len(a) |-> IF a[i] = Hole THEN Fresh(i) ELSE a[i]]
ArraysOf(elems) ==
    {FillFresh(a) : a \in UNION {[1..n -> elems] : n \in 0..MaxInputs}}
Arrays(hp) == ArraysOf(Elems(hp))
\* the same, never() among the promises
ArraysWithNever(hp) == ArraysOf(Elems(hp) \cup {PromiseRef(neverPromise)})
\* the arrays of promises only
PromiseArrays(hp) == {a \in Arrays(hp) : \A i \in 1..Len(a) : isPromise(a[i])}

\* executors: the calls an executor makes before it returns or throws
ScriptCall(c, i) == [c |-> c, v |-> Fresh(i)]
Settlements == {"resolve", "reject"}
Scripts1 ==
    {<<>>} \cup {<<ScriptCall(c, 1)>> : c \in Settlements \cup {"throw"}}
Scripts2 ==
    {<<ScriptCall(c, 1), ScriptCall(d, 2)>> :
        c \in Settlements, d \in Settlements \cup {"throw"}}
\* an executor that resolves with the promise i and then throws
ScriptsAdopt(hp) ==
    {<<[c |-> "resolve", v |-> PromiseRef(i)], ScriptCall("throw", 2)>> :
        i \in Settleable(hp)}
\* promise(x), x not a function: calling x throws a TypeError
NotCallable == <<[c |-> "throw", v |-> TypeError]>>
\* an executor that calls resolve and then settles again
ResolveFirst == {sc \in Scripts2 : sc[1].c = "resolve" /\ sc[2].c # "throw"}

\* an API call of kind k, of which at most max are made
UserCall(k, max) ==
    /\ mode = "sync"
    /\ used[k] < max
    /\ used' = [used EXCEPT ![k] = @ + 1]
    /\ ops' = ops + 1
    /\ mode' = mode
SourceCall(max) == UserCall("source", max)

\* the module loaded in one of the hosts envs
InitIn(envs) ==
    /\ heap = <<[Handler("Never", "PENDING") EXCEPT !.origin = "never"]>>
    /\ taskQueue = <<>>
    /\ rejections = <<>>
    /\ reports = <<>>
    /\ calls = <<>>
    /\ escaped = FALSE
    /\ mode = "sync"
    /\ ops = 0
    /\ used = [source |-> 0, then |-> 0, settle |-> 0, comb |-> 0,
               resolve |-> 0]
    /\ settled = <<>>
    /\ returned = <<>>
    /\ emitted = <<>>
    /\ env \in envs

Init == InitIn({Node})

\* reject(v)
Reject(max) ==
    /\ SourceCall(max)
    /\ Commit(reject(S, Fresh(0)).s)

\* resolve(v)
Resolve(max) ==
    /\ SourceCall(max)
    /\ Return("resolve", <<Fresh(0)>>, resolve(S, Fresh(0)))

\* resolve(p), p a promise of this library in any state
ResolvePromise ==
    /\ UserCall("resolve", MaxResolves)
    /\ \E p \in Promises(heap) :
          Return("resolve", <<PromiseRef(p)>>, resolve(S, PromiseRef(p)))

\* promise(executor), the executor drawn from scripts
NewPromise(scripts, max) ==
    /\ SourceCall(max)
    /\ \E script \in scripts : Commit(promise(S, script).s)

\* a later call of the resolve or reject function an executor was handed
ResolverCall ==
    /\ UserCall("settle", MaxSettles)
    /\ \E id \in 1..Len(heap), c \in Settlements :
          /\ heap[id].cls = "Resolver"
          /\ LET s1 == [S EXCEPT !.heap[id].script =
                                     Append(@, ScriptCall(c, 0))]
             IN Commit(IF c = "resolve"
                       THEN Deferred_resolve(s1, id, Fresh(0))
                       ELSE Deferred_reject(s1, id, Fresh(0)))

\* p.then(f, r); a rejection callback attached to a rejection whose turn
\* has not elapsed is noted on that rejection
ThenCall(fs, rs, max) ==
    /\ UserCall("then", max)
    /\ \E p \in Settleable(heap), f \in fs, r \in rs :
          LET j == join(heap, p)
              s1 == IF IsFunction(r) /\ heap[j].cls = "Rejected"
                       /\ ~heap[j].checked
                    THEN [S EXCEPT !.heap[j].caught = TRUE] ELSE S
          IN Return("then", <<Fn(f), Fn(r), PromiseRef(p)>>,
                    then(s1, f, r, p))

\* never().then(f, r)
ThenNever(fs, rs, max) ==
    /\ UserCall("then", max)
    /\ \E f \in fs, r \in rs :
          Return("then", <<Fn(f), Fn(r), PromiseRef(neverPromise)>>,
                 then(S, f, r, neverPromise))

CombinatorCall == UserCall("comb", MaxCombinators)

\* all(array)
AllCall(arrays) ==
    /\ CombinatorCall
    /\ \E a \in arrays : Return("all", <<Array(a)>>, all(S, Array(a)))

\* race(array)
RaceCall(arrays) ==
    /\ CombinatorCall
    /\ \E a \in arrays : Return("race", <<Array(a)>>, race(S, Array(a)))

\* what is not iterable: a number, undefined, null, a function, an object
\* without iterator (a promise is one), an object with a length only
NonIterables(hp) ==
    {Fresh(0), Hole, Null, Function, Object, ArrayLike}
        \cup {PromiseRef(i) : i \in Settleable(hp)}

\* all(x), x not iterable
AllNonIterable ==
    /\ CombinatorCall
    /\ \E x \in NonIterables(heap) : Return("all", <<x>>, all(S, x))

\* race(x), x not iterable
RaceNonIterable ==
    /\ CombinatorCall
    /\ \E x \in NonIterables(heap) : Return("race", <<x>>, race(S, x))

\* merge(f, ...args)
MergeCall(arrays) ==
    /\ CombinatorCall
    /\ \E f \in MergeFs, a \in arrays : Commit(merge(S, f, a).s)

\* the caller's synchronous code returns to the host, which has tasks to
\* run or rejections to check (a turn with neither changes nothing)
Yield ==
    /\ mode = "sync"
    /\ taskQueue # <<>> \/ rejections # <<>>
    /\ mode' = "drain"
    /\ UNCHANGED <<heap, taskQueue, rejections, reports, calls, escaped, ops,
                   used, settled, returned, env, emitted>>

\* the scheduler runs the task at the head of its queue
RunTask ==
    /\ mode = "drain"
    /\ taskQueue # <<>>
    /\ LET task == Head(taskQueue)
           s1 == [S EXCEPT !.queue = Tail(@)]
       IN Commit(IF task.t = "run" THEN runConsumers(s1, task.h)
                 ELSE runContinuation(s1, task.action, task.h))
    /\ UNCHANGED <<mode, ops, used>>

\* the rejection tracker's check of the rejections registered in this turn
RECURSIVE reportRejections(_, _, _)
reportRejections(s, q, i) ==
    IF i > Len(q) THEN s
    ELSE LET id == q[i]
             s1 == [s EXCEPT !.heap[id].checked = TRUE]
             s2 == IF s.heap[id].handled THEN s1
                   ELSE [s1 EXCEPT
                           !.heap[id].reported = TRUE,
                           !.reports = Append(@,
                               [kind |-> "unhandledRejection",
                                reason |-> s.heap[id].value, h |-> id])]
         IN reportRejections(s2, q, i + 1)

\* the queue is drained: the turn ends
EndTurn ==
    /\ mode = "drain"
    /\ taskQueue = <<>>
    /\ mode' = "sync"
    /\ Commit(reportRejections([S EXCEPT !.rejections = <<>>], rejections, 1))
    /\ UNCHANGED <<ops, used>>

\* ---------------------------------------------------------- specifications
\* then / catch on one promise made by reject, resolve or promise
NextThen ==
    \/ Reject(MaxThenSources) \/ Resolve(MaxThenSources)
    \/ NewPromise(Scripts1, MaxThenSources) \/ ResolverCall
    \/ ThenCall(ThenFs, ThenRs, MaxThens)
    \/ ThenNever(ThenFs, ThenRs, MaxThens)
    \/ Yield \/ RunTask \/ EndTurn

SpecThen == Init /\ [][NextThen]_vars

\* chains of steps that have a fulfillment callback only or a rejection
\* callback only
NextChain ==
    \/ Reject(MaxThenSources) \/ Resolve(MaxThenSources)
    \/ NewPromise({<<>>}, MaxThenSources) \/ ResolverCall
    \/ ThenCall({"fRet", "fThrow"}, {"undef"}, MaxChain)
    \/ ThenCall({"undef"}, {"rRet", "rThrow"}, MaxChain)
    \/ Yield \/ RunTask \/ EndTurn

SpecChain == Init /\ [][NextChain]_vars

\* then on the promises the API hands out already settled
NextAsync ==
    \/ Reject(MaxSources) \/ Resolve(MaxSources)
    \/ NewPromise(Scripts1, MaxSources)
    \/ AllCall(Arrays(heap)) \/ RaceCall(Arrays(heap))
    \/ MergeCall(Arrays(heap))
    \/ ThenCall(ThenFs, ThenRs, MaxThenSources)
    \/ Yield \/ RunTask \/ EndTurn

SpecAsync == Init /\ [][NextAsync]_vars

NextAll ==
    \/ Reject(MaxSources) \/ Resolve(MaxSources)
    \/ NewPromise({<<>>}, MaxSources) \/ ResolverCall
    \/ AllCall(Arrays(heap))
    \/ Yield \/ RunTask \/ EndTurn

SpecAll == Init /\ [][NextAll]_vars

NextRace ==
    \/ Reject(MaxSources) \/ Resolve(MaxSources)
    \/ NewPromise({<<>>}, MaxSources) \/ ResolverCall
    \/ RaceCall(Arrays(heap))
    \/ Yield \/ RunTask \/ EndTurn

SpecRace == Init /\ [][NextRace]_vars

NextMerge ==
    \/ Reject(MaxSources) \/ Resolve(MaxSources)
    \/ NewPromise({<<>>}, MaxSources) \/ ResolverCall
    \/ MergeCall(Arrays(heap))
    \/ Yield \/ RunTask \/ EndTurn

SpecMerge == Init /\ [][NextMerge]_vars

\* promise(executor), the executor throwing before or after it settled
NextExecutor ==
    \/ Reject(MaxSources) \/ Resolve(MaxSources)
    \/ NewPromise(Scripts1 \cup Scripts2 \cup ScriptsAdopt(heap)
                      \cup {NotCallable}, MaxSources)
    \/ ResolverCall
    \/ ThenCall({"fRet"}, {"undef", "rRet"}, MaxThenSources)
    \/ Yield \/ RunTask \/ EndTurn

SpecExecutor == Init /\ [][NextExecutor]_vars

\* race on an empty array, never() among the inputs, then on never()
NextNever ==
    \/ Reject(MaxThenSources) \/ Resolve(MaxThenSources)
    \/ RaceCall(ArraysWithNever(heap))
    \/ ThenNever({"fRet"}, {"undef", "rRet"}, MaxThens)
    \/ ThenCall({"fRet"}, {"undef", "rRet"}, MaxThens)
    \/ Yield \/ RunTask \/ EndTurn

SpecNever == Init /\ [][NextNever]_vars

\* resolve on values and on promises in every state
NextResolve ==
    \/ Reject(MaxSources) \/ Resolve(MaxSources)
    \/ NewPromise({<<>>} \cup ScriptsAdopt(heap), MaxSources) \/ ResolverCall
    \/ ThenCall({"fRet"}, {"undef"}, MaxThenSources)
    \/ ResolvePromise
    \/ Yield \/ RunTask \/ EndTurn

SpecResolve == Init /\ [][NextResolve]_vars

\* rejections reported unhandled, and handled afterwards, in every host
NextEmit ==
    \/ Reject(MaxThenSources)
    \/ NewPromise({<<>>}, MaxThenSources) \/ ResolverCall
    \/ ThenCall({"undef", "fRet"}, {"undef", "rRet"}, MaxThens)
    \/ Yield \/ RunTask \/ EndTurn

SpecEmit == InitIn(Envs) /\ [][NextEmit]_vars

\* all and race on what is not iterable
NextNonIterable ==
    \/ Reject(MaxSources) \/ Resolve(MaxSources)
    \/ NewPromise({<<>>}, MaxSources)
    \/ AllNonIterable \/ RaceNonIterable
    \/ ThenCall({"fRet"}, {"undef", "rRet"}, MaxThenSources)
    \/ Yield \/ RunTask \/ EndTurn

SpecNonIterable == Init /\ [][NextNonIterable]_vars

\* every kind of Deferred, settled more than once
NextSettle ==
    \/ NewPromise({<<>>} \cup ResolveFirst, MaxSources) \/ ResolverCall
    \/ ThenCall({"fRet"}, {"undef"}, MaxThenSources)
    \/ AllCall(PromiseArrays(heap)) \/ RaceCall(PromiseArrays(heap))
    \/ MergeCall(PromiseArrays(heap))
    \/ Yield \/ RunTask \/ EndTurn

SpecSettle == Init /\ [][NextSettle]_vars

\* the whole API; the specifications above are restrictions of this one
Next ==
    \/ Reject(MaxSources) \/ Resolve(MaxSources)
    \/ NewPromise(Scripts1 \cup Scripts2 \cup ScriptsAdopt(heap)
                      \cup {NotCallable}, MaxSources)
    \/ ResolverCall
    \/ ThenCall(ThenFs, ThenRs, MaxThens)
    \/ ThenNever(ThenFs, ThenRs, MaxThens)
    \/ AllCall(ArraysWithNever(heap)) \/ RaceCall(ArraysWithNever(heap))
    \/ MergeCall(ArraysWithNever(heap))
    \/ AllNonIterable \/ RaceNonIterable
    \/ ResolvePromise
    \/ Yield \/ RunTask \/ EndTurn

Spec == Init /\ [][Next]_vars

\* ------------------------------------------------------------- properties
\* the value v with the arrays it refers to read from the heap hp
RECURSIVE Deref(_, _)
Deref(hp, v) ==
    IF v.k = "arrayref"
    THEN Array([i \in 1..Len(hp[v.n].results) |-> Deref(hp, hp[v.n].results[i])])
    ELSE v

\* what the promise owning handler id has come to
Outcome(hp, id) ==
    [state |-> state(hp, id), value |-> Deref(hp, hp[join(hp, id)].value)]
FulfilledWith(x) == [state |-> "FULFILLED", value |-> x]
RejectedWith(e) == [state |-> "REJECTED", value |-> e]

Ids == 1..Len(heap)
ThenOutputs == {n \in Ids : heap[n].origin = "then"}
CallsOf(n) == SelectSeq(calls, LAMBDA c : c.next = n)
\* every scheduled notification has been delivered
Quiescent == taskQueue = <<>>

\* C1  Settlement is idempotent: once a Deferred-based handler (Resolver,
\* then output, All, Race, Merge) is settled, no step changes its state or
\* its value, and a Resolver has the outcome of the first resolve / reject
\* call made on it, whatever calls follow.
FirstAttempt(hp, id) ==
    hp[id].script # <<>> =>
        Outcome(hp, id) = IF hp[id].script[1].c = "resolve"
                          THEN FulfilledWith(hp[id].script[1].v)
                          ELSE RejectedWith(hp[id].script[1].v)
C1_Step ==
    /\ \A id \in Ids :
          (heap[id].cls \in DeferredClasses /\ state(heap, id) # "PENDING")
             => Outcome(heap', id) = Outcome(heap, id)
    /\ \A id \in 1..Len(heap') :
          heap'[id].cls = "Resolver" => FirstAttempt(heap', id)
C1_IdempotentSettlement == [][C1_Step]_vars

\* an executor called resolve(a) and then reject(b), and a combinator output
\* is settled although a second input of it settled afterwards
C1_Witness ==
    /\ \E id \in Ids :
          /\ heap[id].cls = "Resolver" /\ Len(heap[id].script) >= 2
          /\ heap[id].script[2].c = "reject"
          /\ state(heap, id) = "FULFILLED"
    /\ \E id \in Ids :
          /\ heap[id].cls \in {"All", "Race", "Merge"}
          /\ state(heap, id) # "PENDING" /\ Quiescent
          /\ \E i, j \in 1..Len(heap[id].array) :
                /\ i # j
                /\ heap[id].atCall[j] = "PENDING"
                /\ state(heap, heap[id].array[i].n) # "PENDING"
                /\ state(heap, heap[id].array[j].n) = "REJECTED"

\* the callback of a then output that applies to what its source has come to
Applicable(n) ==
    IF state(heap, heap[n].src) = "FULFILLED" THEN heap[n].tf
    ELSE IF state(heap, heap[n].src) = "REJECTED" THEN heap[n].tr
    ELSE "undef"
SourceValue(n) == Outcome(heap, heap[n].src).value

\* C2  For then(f, r) whose applicable callback is a function: the callback
\* is invoked at most once, and once the notifications are delivered exactly
\* once, with the value or reason of the source; the new promise is
\* fulfilled with what it returned or rejected with what it threw; and no
\* exception leaves the handler.
C2_ThenCallback ==
    /\ ~escaped
    /\ \A n \in ThenOutputs :
          LET cs == CallsOf(n) IN
          /\ Len(cs) <= 1
          /\ cs # <<>> =>
                /\ IsFunction(Applicable(n))
                /\ cs[1].fn = Applicable(n)
                /\ Deref(heap, cs[1].arg) = SourceValue(n)
                /\ Outcome(heap, n) =
                      IF Call(cs[1].fn, <<cs[1].arg>>).ok
                      THEN FulfilledWith(Call(cs[1].fn, <<cs[1].arg>>).v)
                      ELSE RejectedWith(Call(cs[1].fn, <<cs[1].arg>>).v)
          /\ (IsFunction(Applicable(n)) /\ Quiescent) => Len(cs) = 1
          /\ (IsFunction(Applicable(n)) /\ cs = <<>>) =>
                state(heap, n) = "PENDING"

\* a rejection callback threw, and its promise is rejected with what it threw
C2_Witness ==
    \E n \in ThenOutputs :
        /\ CallsOf(n) # <<>>
        /\ CallsOf(n)[1].fn = "rThrow"
        /\ heap[n].atCall = <<"PENDING">>
        /\ state(heap, n) = "REJECTED"

\* the promise a rejection (a fulfillment) reaches n from, through steps
\* that have no rejection (no fulfillment) callback
RECURSIVE RejRoot(_), FulRoot(_)
RejRoot(n) ==
    IF heap[n].origin = "then" /\ ~IsFunction(heap[n].tr)
    THEN RejRoot(heap[n].src) ELSE n
FulRoot(n) ==
    IF heap[n].origin = "then" /\ ~IsFunction(heap[n].tf)
    THEN FulRoot(heap[n].src) ELSE n

\* the one call of callback f with argument x
CalledOnceWith(n, f, x) ==
    /\ Len(CallsOf(n)) = 1
    /\ CallsOf(n)[1].fn = f
    /\ Deref(heap, CallsOf(n)[1].arg) = x

\* C3  Rejections skip fulfillment-only steps: when the promise at the head
\* of a chain of then(f) steps is rejected with e, no f of the chain is ever
\* invoked, every promise of the chain ends rejected with e, and the
\* rejection callback of a following catch(r) is invoked with e;
\* symmetrically for a fulfilled value and steps that have a rejection
\* callback only.
C3_RejectionsSkip ==
    \A n \in ThenOutputs :
        /\ (~IsFunction(heap[n].tr) /\ state(heap, RejRoot(n)) = "REJECTED") =>
              /\ CallsOf(n) = <<>>
              /\ state(heap, n) # "FULFILLED"
              /\ state(heap, n) = "REJECTED" =>
                    Outcome(heap, n) = Outcome(heap, RejRoot(n))
              /\ Quiescent => state(heap, n) = "REJECTED"
        /\ (IsFunction(heap[n].tr) /\ Quiescent
              /\ state(heap, RejRoot(heap[n].src)) = "REJECTED") =>
              CalledOnceWith(n, heap[n].tr,
                             Outcome(heap, RejRoot(heap[n].src)).value)
        /\ (~IsFunction(heap[n].tf) /\ state(heap, FulRoot(n)) = "FULFILLED") =>
              /\ CallsOf(n) = <<>>
              /\ state(heap, n) # "REJECTED"
              /\ state(heap, n) = "FULFILLED" =>
                    Outcome(heap, n) = Outcome(heap, FulRoot(n))
              /\ Quiescent => state(heap, n) = "FULFILLED"
        /\ (IsFunction(heap[n].tf) /\ Quiescent
              /\ state(heap, FulRoot(heap[n].src)) = "FULFILLED") =>
              CalledOnceWith(n, heap[n].tf,
                             Outcome(heap, FulRoot(heap[n].src)).value)

\* p.then(f1).then(f2).catch(r) built on a pending p, p rejected later, and
\* r called
C3_Witness ==
    \E n \in ThenOutputs :
        LET m == heap[n].src IN
        /\ IsFunction(heap[n].tr) /\ CallsOf(n) # <<>>
        /\ m \in ThenOutputs /\ IsFunction(heap[m].tf)
        /\ heap[m].src \in ThenOutputs /\ IsFunction(heap[heap[m].src].tf)
        /\ heap[heap[m].src].atCall = <<"PENDING">>
        /\ heap[heap[heap[m].src].src].cls = "Resolver"
        /\ state(heap, m) = "REJECTED"

\* C8  then callbacks run asynchronously: no callback passed to then is
\* invoked while the caller's synchronous code runs, however the promise it
\* was attached to was produced; it is invoked in a scheduler task.
C8_AsyncCallbacks ==
    \A i \in 1..Len(calls) :
        calls[i].fn \in (ThenFs \cup ThenRs) => calls[i].mode = "drain"

\* a callback attached to the settled output of a combinator has run
C8_Witness ==
    \E n \in ThenOutputs :
        /\ heap[n].atCall # <<"PENDING">>
        /\ heap[heap[n].src].origin = "comb"
        /\ CallsOf(n) # <<>>

UnhandledReports(h) ==
    SelectSeq(reports, LAMBDA n : n.kind = "unhandledRejection" /\ n.h = h)

\* C9  A promise made by reject(e) is reported unhandled exactly once, with
\* e, when the turn it was made in ends without a rejection callback
\* attached to it, however often then(f) was called on it; it is never
\* reported when a rejection callback was attached before the turn ended.
C9_UnhandledRejection ==
    \A a \in Ids :
        heap[a].origin = "reject" =>
            LET h == heap[a].handler
                u == UnhandledReports(h)
            IN /\ Len(u) <= 1
               /\ ~heap[h].checked => u = <<>>
               /\ (heap[h].checked /\ heap[h].caught) => u = <<>>
               /\ (heap[h].checked /\ ~heap[h].caught) =>
                     /\ Len(u) = 1
                     /\ u[1].reason = heap[h].value

\* then(f) was called twice on reject(e), and e was reported once
C9_Witness ==
    /\ used["then"] = 2
    /\ ThenOutputs = {}
    /\ \E a \in Ids :
          /\ heap[a].origin = "reject"
          /\ heap[heap[a].handler].checked
          /\ Len(UnhandledReports(heap[a].handler)) = 1

\* a rejection callback was attached in the turn of reject(e): no report
C9_WitnessCaught ==
    \E a \in Ids :
        /\ heap[a].origin = "reject"
        /\ heap[heap[a].handler].checked
        /\ heap[heap[a].handler].caught

\* ------------------------------------------------ properties: combinators
Inputs(c) == 1..Len(heap[c].array)
\* what input i of the combinator c has come to
InputOutcome(c, i) ==
    IF isPromise(heap[c].array[i]) THEN Outcome(heap, heap[c].array[i].n)
    ELSE FulfilledWith(heap[c].array[i])
InputValues(c) == [i \in Inputs(c) |-> InputOutcome(c, i).value]
AllFulfilled(c) == \A i \in Inputs(c) : InputOutcome(c, i).state = "FULFILLED"
\* the inputs of c that were pending when c was made, in the order in which
\* they settled
SettledInTime(c) ==
    SelectSeq(settled, LAMBDA id :
        \E i \in Inputs(c) : /\ heap[c].atCall[i] = "PENDING"
                             /\ heap[c].array[i] = PromiseRef(id))
RejectedInTime(c) ==
    SelectSeq(SettledInTime(c), LAMBDA id : state(heap, id) = "REJECTED")
Position(seq, x) == CHOOSE k \in 1..Len(seq) : seq[k] = x
Least(set) == CHOOSE k \in set : \A l \in set : k <= l

Alls == {a \in Ids : heap[a].cls = "All"}
Races == {a \in Ids : heap[a].cls = "Race"}
Merges == {a \in Ids : heap[a].cls = "Merge"}

\* C4  all(inputs) is fulfilled only when every input is fulfilled, then with
\* the results of the inputs in input order, whatever the order in which
\* they settled; and it is fulfilled once every input is fulfilled and the
\* notifications are delivered.
C4_AllFulfills ==
    \A a \in Alls :
        /\ state(heap, a) = "FULFILLED" =>
              /\ AllFulfilled(a)
              /\ Outcome(heap, a).value = Array(InputValues(a))
        /\ (AllFulfilled(a) /\ Quiescent) => state(heap, a) = "FULFILLED"

\* all([p, q]) is fulfilled, p and q were pending at the call and q settled
\* before p
C4_Witness ==
    \E a \in Alls :
        /\ state(heap, a) = "FULFILLED"
        /\ heap[a].atCall = <<"PENDING", "PENDING">>
        /\ heap[a].array[1] # heap[a].array[2]
        /\ Position(settled, heap[a].array[2].n)
              < Position(settled, heap[a].array[1].n)

RejectedAtCall(a) == {i \in Inputs(a) : heap[a].atCall[i] = "REJECTED"}
HasRejection(a) == RejectedAtCall(a) # {} \/ RejectedInTime(a) # <<>>
FirstRejection(a) ==
    IF RejectedAtCall(a) # {} THEN InputOutcome(a, Least(RejectedAtCall(a)))
    ELSE Outcome(heap, RejectedInTime(a)[1])

\* C5  all(inputs) is rejected with the reason of the first input to reject:
\* the earliest input in iteration order among those already rejected at
\* the call, otherwise the input that rejected first in time; with a
\* rejected input it is never fulfilled, and what other inputs come to later
\* does not change its reason; without one it is not rejected.
C5_AllRejects ==
    \A a \in Alls :
        /\ HasRejection(a) =>
              /\ state(heap, a) # "FULFILLED"
              /\ state(heap, a) = "REJECTED" =>
                    Outcome(heap, a) = FirstRejection(a)
              /\ Quiescent => state(heap, a) = "REJECTED"
        /\ ~HasRejection(a) => state(heap, a) # "REJECTED"

\* all([p, q]) with p, q pending at the call: q rejected, then p rejected
C5_Witness ==
    \E a \in Alls :
        /\ state(heap, a) = "REJECTED" /\ Quiescent
        /\ heap[a].atCall = <<"PENDING", "PENDING">>
        /\ Len(RejectedInTime(a)) = 2
        /\ RejectedInTime(a)[1] = heap[a].array[2].n
        /\ RejectedInTime(a)[2] = heap[a].array[1].n

SettledAtCall(r) == {i \in Inputs(r) : heap[r].atCall[i] # "PENDING"}
HasSettlement(r) == SettledAtCall(r) # {} \/ SettledInTime(r) # <<>>
FirstSettlement(r) ==
    IF SettledAtCall(r) # {} THEN InputOutcome(r, Least(SettledAtCall(r)))
    ELSE Outcome(heap, SettledInTime(r)[1])

\* C6  race(inputs) on a non-empty array takes the outcome of the first
\* input to settle: the earliest in iteration order among the plain values
\* and the promises already settled at the call, also behind pending
\* inputs; otherwise the input that settled first in time.  Later
\* settlements do not change it, and it stays pending while no input has
\* settled.
C6_RaceFirst ==
    \A r \in Races :
        /\ HasSettlement(r) =>
              /\ state(heap, r) # "PENDING" =>
                    Outcome(heap, r) = FirstSettlement(r)
              /\ Quiescent => state(heap, r) # "PENDING"
        /\ ~HasSettlement(r) => state(heap, r) = "PENDING"

\* race([p, q]): p pending and q rejected at the call, p fulfilled later
C6_Witness ==
    \E r \in Races :
        /\ heap[r].atCall = <<"PENDING", "REJECTED">>
        /\ state(heap, heap[r].array[1].n) = "FULFILLED"
        /\ state(heap, r) = "REJECTED" /\ Quiescent

\* race([p, q]): both pending at the call, q rejected first, p fulfilled next
C6_WitnessInTime ==
    \E r \in Races :
        /\ heap[r].atCall = <<"PENDING", "PENDING">>
        /\ Len(SettledInTime(r)) = 2
        /\ SettledInTime(r)[1] = heap[r].array[2].n
        /\ state(heap, r) = "REJECTED" /\ Quiescent

\* C7  merge(f, ...args): once every argument is fulfilled (and the
\* notifications are delivered) the output is resolved with what f returns
\* for the results in argument order, or rejected with what f throws, for
\* every timing of the arguments and also without arguments.
C7_MergeApplies ==
    \A m \in Merges :
        (AllFulfilled(m) /\ Quiescent) =>
            Outcome(heap, m) =
                IF Call(heap[m].tf, InputValues(m)).ok
                THEN FulfilledWith(Call(heap[m].tf, InputValues(m)).v)
                ELSE RejectedWith(Call(heap[m].tf, InputValues(m)).v)

\* C10  Once all(inputs) is rejected, every other input that is rejected
\* has been marked handled by all(), wherever it stands in the array.
C10_RemainingObserved ==
    \A a \in Alls :
        (state(heap, a) = "REJECTED" /\ Quiescent) =>
            \A i \in Inputs(a) :
                (/\ isPromise(heap[a].array[i])
                 /\ state(heap, heap[a].array[i].n) = "REJECTED"
                 /\ join(heap, heap[a].array[i].n) # join(heap, a))
                => heap[join(heap, heap[a].array[i].n)].handled

\* ------------------------------------------- properties: race and silence
\* the rejected handlers of the inputs of the race r it did not settle from
RejectedLosers(r) ==
    {join(heap, heap[r].array[i].n) :
        i \in {k \in Inputs(r) :
                  /\ isPromise(heap[r].array[k])
                  /\ state(heap, heap[r].array[k].n) = "REJECTED"
                  /\ join(heap, heap[r].array[k].n) # join(heap, r)}}
\* the inputs of r that were pending when race was called and lost
LateLosers(r) ==
    {join(heap, heap[r].array[i].n) :
        i \in {k \in Inputs(r) :
                  /\ heap[r].atCall[k] = "PENDING"
                  /\ join(heap, heap[r].array[k].n) # join(heap, r)}}

\* once the race is settled, every rejected loser is marked handled, and a
\* loser that rejected after the call is never reported
LosersSilenced ==
    \A r \in Races :
        (state(heap, r) # "PENDING" /\ Quiescent) =>
            /\ \A h \in RejectedLosers(r) : heap[h].handled
            /\ \A h \in LateLosers(r) : UnhandledReports(h) = <<>>

\* nothing but race observes the promises here, so a handled winner was
\* marked handled by race
WinnerNotSilenced ==
    \A r \in Races :
        state(heap, r) = "REJECTED" => ~heap[join(heap, r)].handled

\* C11  race(inputs) silences its losers: once the output is settled, every
\* other input that is rejected, before or after the winner in iteration
\* order, at the call or later, is marked handled and is not reported
\* unhandled; the rejection of the winner is not marked handled by race.
C11_RaceSilences == LosersSilenced /\ WinnerNotSilenced

\* ------------------------------------------- properties: what calls return
Returned(api) == SelectSeq(returned, LAMBDA c : c.api = api)
ReturnedSet(api) == {Returned(api)[i] : i \in 1..Len(Returned(api))}
IsNonIterable(x) == x.k # "array"

\* C12  For every input that is not iterable (a number, undefined, null, a
\* function, an object without iterator), all(input) and race(input) do not
\* throw and return a promise rejected with a TypeError.
C12_NonIterableRejects ==
    /\ ~escaped
    /\ \A c \in ReturnedSet("all") \cup ReturnedSet("race") :
          IsNonIterable(c.args[1]) =>
              /\ c.p # 0
              /\ Outcome(heap, c.p) = RejectedWith(TypeError)

\* the part of it the code keeps: what typeof does not call an object, and
\* null
C12_NonObjectRejects ==
    \A c \in ReturnedSet("all") \cup ReturnedSet("race") :
        (~typeofObject(c.args[1]) \/ c.args[1] = Null) =>
            /\ c.p # 0
            /\ Outcome(heap, c.p) = RejectedWith(TypeError)

\* ------------------------------------------------- properties: executors
Resolvers == {id \in Ids : heap[id].cls = "Resolver"}
Threw(id) == \E i \in 1..Len(heap[id].script) : heap[id].script[i].c = "throw"
\* what the first call of the executor of id settles id to
FirstCallOutcome(id) ==
    LET c == heap[id].script[1] IN
    IF c.c = "resolve"
    THEN (IF isPromise(c.v) THEN Outcome(heap, c.v.n) ELSE FulfilledWith(c.v))
    ELSE RejectedWith(c.v)

\* C13  promise(executor) never throws to its caller: when the executor
\* throws e before it called resolve or reject the promise is rejected with
\* e; when it throws after it called one of them the earlier settlement
\* stands (a promise it resolved with is followed) and e is discarded.
C13_ExecutorThrows ==
    /\ ~escaped
    /\ \A id \in Resolvers :
          Threw(id) =>
              IF heap[id].script[1].c = "throw"
              THEN Outcome(heap, id) = RejectedWith(heap[id].script[1].v)
              ELSE Outcome(heap, id) = FirstCallOutcome(id)

\* one executor threw at once, another called resolve(v) and then threw: the
\* first promise is rejected, the second fulfilled with v
C13_Witness ==
    \E a, b \in Resolvers :
        /\ heap[a].script # <<>> /\ heap[a].script[1].c = "throw"
        /\ heap[a].script[1].v # TypeError
        /\ state(heap, a) = "REJECTED"
        /\ Len(heap[b].script) = 2
        /\ heap[b].script[1].c = "resolve" /\ heap[b].script[2].c = "throw"
        /\ state(heap, b) = "FULFILLED"

\* ------------------------------------------------------ properties: then
\* how many Then continuations with output n the consumers cs hold
ThensIn(cs, n) ==
    Cardinality({k \in 1..Len(cs) : cs[k].type = "Then" /\ cs[k].next = n})
\* the tasks of the queue q that deliver a Then with output n
ThenTasks(q, n) ==
    {k \in 1..Len(q) : /\ q[k].t = "cont" /\ q[k].action.type = "Then"
                       /\ q[k].action.next = n}
RECURSIVE SumThens(_, _, _)
SumThens(hp, n, i) ==
    IF i > Len(hp) THEN 0
    ELSE ThensIn(hp[i].consumers, n) + SumThens(hp, n, i + 1)
\* the Then continuations with output n that wait anywhere
Subscriptions(hp, q, n) == SumThens(hp, n, 1) + Cardinality(ThenTasks(q, n))
\* the one continuation of n waits on h: among the consumers of h, or in a
\* task that will notify it of what h stands for
SubscribedTo(hp, q, n, h) ==
    \/ ThensIn(hp[h].consumers, n) = 1
    \/ \E k \in ThenTasks(q, n) : q[k].h = hp[h].handler

\* the step is a call of then; c is what it returned
ThenStep(c) ==
    LET h == c.args[3].n
        st == state(heap, h)
        short == \/ st = "FULFILLED" /\ c.args[1] = Hole
                 \/ st = "REJECTED" /\ c.args[2] = Hole
    IN IF short
       THEN /\ c.p = h
            /\ Len(heap') = Len(heap)
            /\ taskQueue' = taskQueue
            /\ \A id \in Ids : heap'[id].consumers = heap[id].consumers
       ELSE /\ c.p = Len(heap) + 1 /\ c.p # h
            /\ Len(heap') = Len(heap) + 1
            /\ heap'[c.p].cls = "Deferred"
            \* never() is handed the continuation too and keeps nothing
            /\ IF h = neverPromise
               THEN Subscriptions(heap', taskQueue', c.p) = 0
               ELSE /\ Subscriptions(heap', taskQueue', c.p) = 1
                    /\ SubscribedTo(heap', taskQueue', c.p, h)
C14_Step ==
    (Len(returned') > Len(returned) /\ returned'[Len(returned')].api = "then")
        => ThenStep(returned'[Len(returned')])

\* C14  then(f, r, h) returns h itself, allocating nothing and registering
\* nothing, exactly when h is fulfilled and f is no function or h is
\* rejected and r is no function; in every other case it returns a new
\* Deferred, distinct from h, with exactly one Then continuation
\* subscribed to h.
C14_ThenReturns == [][C14_Step]_vars

\* then(f) on a rejected promise returned that promise, and another call of
\* then returned a new one
C14_Witness ==
    \E c, d \in ReturnedSet("then") :
        /\ c.p = c.args[3].n
        /\ c.args[1] # Hole /\ c.args[2] = Hole
        /\ state(heap, c.p) = "REJECTED"
        /\ d.p # d.args[3].n

\* ----------------------------------------------------- properties: never
\* the then outputs whose chain of sources starts at never()
RECURSIVE FromNever(_)
FromNever(n) ==
    heap[n].origin = "then" /\
        (heap[n].src = neverPromise \/ FromNever(heap[n].src))

\* C17  race on an empty input returns the never() promise, which is
\* pending in every reachable state; the continuations registered on it
\* through then are kept nowhere and never invoked, so the promises then
\* returned for it stay pending.
C17_RaceEmptyNever ==
    /\ heap[neverPromise].cls = "Never"
    /\ state(heap, neverPromise) = "PENDING"
    /\ \A c \in ReturnedSet("race") :
          c.args[1] = Array(<<>>) => c.p = neverPromise
    /\ \A n \in ThenOutputs :
          FromNever(n) =>
              /\ CallsOf(n) = <<>>
              /\ state(heap, n) = "PENDING"
              /\ heap[n].src = neverPromise =>
                    Subscriptions(heap, taskQueue, n) = 0

\* race([]) returned never(), then(f) was called on it, and the scheduler
\* has since run the callback of another promise
C17_Witness ==
    /\ \E c \in ReturnedSet("race") :
          c.args[1] = Array(<<>>) /\ c.p = neverPromise
    /\ \E n \in ThenOutputs :
          heap[n].src = neverPromise /\ IsFunction(heap[n].tf)
    /\ calls # <<>> /\ mode = "sync" /\ Quiescent

\* --------------------------------------------------- properties: resolve
\* C15  resolve is idempotent on promises: resolve(p) is p itself for a
\* promise p in any state (pending, fulfilled, rejected, never), so
\* resolve(resolve(x)) settles as resolve(x) does, with x, and no promise is
\* fulfilled with a promise.
C15_ResolveIdempotent ==
    /\ \A c \in ReturnedSet("resolve") :
          IF isPromise(c.args[1]) THEN c.p = c.args[1].n
          ELSE Outcome(heap, c.p) = FulfilledWith(c.args[1])
    /\ \A c, d \in ReturnedSet("resolve") :
          d.args[1] = PromiseRef(c.p) => Outcome(heap, d.p) = Outcome(heap, c.p)
    /\ \A id \in Promises(heap) :
          state(heap, id) = "FULFILLED" => ~isPromise(Outcome(heap, id).value)

\* resolve(resolve(x)) was called, and resolve(p) for a rejected p
C15_Witness ==
    \E c, d, e \in ReturnedSet("resolve") :
        /\ ~isPromise(c.args[1])
        /\ d.args[1] = PromiseRef(c.p)
        /\ isPromise(e.args[1]) /\ state(heap, e.p) = "REJECTED"

\* ------------------------------------------------ properties: empty input
\* C16  all on an empty input is fulfilled with an empty sequence from the
\* moment it returns: it waits for no settlement and is never rejected.
C16_AllEmpty ==
    \A c \in ReturnedSet("all") :
        c.args[1] = Array(<<>>) =>
            /\ c.p # 0
            /\ heap[c.p].cls = "All"
            /\ Outcome(heap, c.p) = FulfilledWith(Array(<<>>))

\* all([]) is fulfilled while the caller's code still runs, no task has run
\* and a promise made before it is still pending
C16_Witness ==
    /\ \E c \in ReturnedSet("all") :
          c.args[1] = Array(<<>>) /\ state(heap, c.p) = "FULFILLED"
    /\ \E id \in Resolvers : state(heap, id) = "PENDING"
    /\ mode = "sync" /\ settled = <<>> /\ reports = <<>>

\* ------------------------------------------ properties: consumed or not
Rejecteds == {h \in Ids : heap[h].cls = "Rejected"}
\* the then outputs whose rejection callback was called with the rejection h
Catchers(h) ==
    {n \in ThenOutputs : /\ IsFunction(heap[n].tr)
                         /\ CallsOf(n) # <<>>
                         /\ join(heap, heap[n].src) = h}

\* C18  A Then continuation reports a rejection consumed only when it has a
\* rejection callback: a rejection is marked handled exactly when the
\* rejection callback of some then was called with it.  A rejection that
\* only passed through then(f) steps is not marked handled, and is reported
\* unhandled when its turn ends.
C18_ConsumedOnlyByCallback ==
    \A h \in Rejecteds :
        /\ heap[h].handled <=> Catchers(h) # {}
        /\ (heap[h].checked /\ ~heap[h].handled) =>
              Len(UnhandledReports(h)) = 1

\* a rejection went through two then(f) steps made while the source was
\* pending; it is not marked handled and has been reported
C18_Witness ==
    \E n \in ThenOutputs :
        LET m == heap[n].src
            h == join(heap, n)
        IN /\ ~IsFunction(heap[n].tr) /\ heap[n].atCall = <<"PENDING">>
           /\ m \in ThenOutputs /\ ~IsFunction(heap[m].tr)
           /\ heap[m].atCall = <<"PENDING">>
           /\ state(heap, n) = "REJECTED" /\ h = join(heap, heap[m].src)
           /\ ~heap[h].handled /\ heap[h].checked
           /\ Len(UnhandledReports(h)) = 1

\* ----------------------------------------------------- properties: merge
\* C19  In merge(f, ...args), f is invoked at most once, only in a state
\* where every argument is fulfilled (then with their results in argument
\* order), and never when an argument has rejected, whatever the order in
\* which the arguments settle; when an argument rejects the output is
\* rejected with the reason of the first one to do so, and f is not called.
C19_MergeCallsOnce ==
    \A m \in Merges :
        /\ Len(CallsOf(m)) <= 1
        /\ CallsOf(m) # <<>> =>
              /\ AllFulfilled(m)
              /\ CallsOf(m)[1].fn = heap[m].tf
              /\ CallsOf(m)[1].arg = Array(InputValues(m))
        /\ HasRejection(m) =>
              /\ CallsOf(m) = <<>>
              /\ state(heap, m) # "FULFILLED"
              /\ state(heap, m) = "REJECTED" =>
                    Outcome(heap, m) = FirstRejection(m)
              /\ Quiescent => state(heap, m) = "REJECTED"

\* merge(f, p, q), p and q pending at the call: one fulfilled, then the
\* other rejected; the output is rejected and f was not called
C19_Witness ==
    \E m \in Merges :
        /\ heap[m].atCall = <<"PENDING", "PENDING">>
        /\ Len(SettledInTime(m)) = 2
        /\ state(heap, SettledInTime(m)[1]) = "FULFILLED"
        /\ state(heap, SettledInTime(m)[2]) = "REJECTED"
        /\ state(heap, m) = "REJECTED" /\ Quiescent
        /\ CallsOf(m) = <<>>

\* merge(f, p, q), p and q pending at the call and fulfilled later: f was
\* called once
C19_WitnessCalled ==
    \E m \in Merges :
        /\ heap[m].atCall = <<"PENDING", "PENDING">>
        /\ heap[m].array[1] # heap[m].array[2]
        /\ Len(CallsOf(m)) = 1 /\ Quiescent

\* -------------------------------------------------- properties: reporter
Emitted == {emitted[i] : i \in 1..Len(emitted)}
Carries(ev, x) == \E k \in 1..Len(ev.args) : ev.args[k].x = x
\* the host has no transport: nothing is sent, and the emitter returns falsy
NoopIsSilent ==
    emitter(env) = "noop" =>
        \A c \in Emitted : c.sent = <<>> /\ c.ret = FALSE

\* C20 as stated: in a host that has a transport every notification, of
\* either kind, carries the rejection reason and a reference to the
\* rejected handler; without a transport the emitter is a no-op that
\* returns a falsy value.
C20_ReportsCarryBoth ==
    /\ NoopIsSilent
    /\ emitter(env) # "noop" =>
          \A c \in Emitted :
              /\ Len(c.sent) = 1
              /\ c.sent[1].type = c.type
              /\ Carries(c.sent[1], c.reason)
              /\ Carries(c.sent[1], HandlerRef(c.error))

\* C20  amended: an 'unhandledRejection' notification carries the reason
\* and the rejected handler in Node (process.emit) and in a browser
\* (CustomEvent detail); a 'rejectionHandled' notification carries both in
\* a browser and, in Node, the rejected handler only, whose value is the
\* reason; without a transport the emitter is a no-op returning falsy.
C20_ReportsCarry ==
    /\ NoopIsSilent
    /\ emitter(env) # "noop" =>
          \A c \in Emitted :
              /\ Len(c.sent) = 1
              /\ c.sent[1].type = c.type
              /\ Carries(c.sent[1], HandlerRef(c.error))
              /\ heap[c.error].cls = "Rejected"
              /\ heap[c.error].value = c.reason
              /\ Carries(c.sent[1], c.reason) <=>
                    (emitter(env) = "dispatchEvent"
                        \/ c.type = UNHANDLED_REJECTION)

\* Node has emitted an unhandledRejection and then the rejectionHandled of
\* the same rejection
C20_Witness ==
    /\ emitter(env) = "process.emit"
    /\ \E i, j \in 1..Len(emitted) :
          /\ i < j
          /\ emitted[i].type = UNHANDLED_REJECTION
          /\ emitted[j].type = REJECTION_HANDLED
          /\ emitted[i].error = emitted[j].error
          /\ emitted[i].sent # <<>> /\ emitted[j].sent # <<>>

\* the same in a browser
C20_WitnessBrowser ==
    /\ emitter(env) = "dispatchEvent"
    /\ \E i, j \in 1..Len(emitted) :
          /\ emitted[i].type = UNHANDLED_REJECTION
          /\ emitted[j].type = REJECTION_HANDLED
====
